---- MODULE Spec2Model ----
(***************************************************************************)
(* A model of datastore/src/data_loading.py: the three remote fetchers,    *)
(* the subjects cleaner, the screening-site range join, the adverse-events *)
(* extractor, the display dictionaries and the blood-data cleaner.         *)
(*                                                                         *)
(* Python values are modelled as tagged records so that a string, a number *)
(* and a missing value stay distinguishable; strings are sequences of      *)
(* one-character strings so that "contains", the whitespace pattern and    *)
(* the numeric parse are computed and not assumed.                         *)
(***************************************************************************)
EXTENDS Integers, Sequences, FiniteSets, TLC

VARIABLES
    pc,                 \* position of the running top-level call
    fn,                 \* the top-level function that is running
    now,                \* the wall clock read by datetime.now()
    current_datetime,   \* the local of that name in the running fetcher
    requests,           \* file names of the GETs issued by the running call
    payload,            \* parsed bodies of the resources fetched so far
    combined,           \* whether the combination step has been entered
    answers,            \* status of each GET of the running call (0: it raised)
    failure,            \* the step of the running call that failed, if any
    ret,                \* the value returned by the last top-level call
    raised,             \* whether the last top-level call raised to its caller
    op,                 \* the function applied last
    arg,                \* its arguments, as they were when it was called
    arg_after,          \* the caller's argument objects when it returned
    out,                \* what a cleaning function returned
    display_terms,      \* the term table of the session
    display_terms_dict,         \* the session's single-valued dictionary
    display_terms_dict_multi    \* the session's multi-valued dictionary

fetch == <<fn, now, current_datetime, requests, payload, combined, answers, failure>>
frame == <<op, arg, arg_after, out>>
session == <<display_terms, display_terms_dict, display_terms_dict_multi>>

vars == <<pc, fetch, ret, raised, frame, session>>

\* ------------------------------------------------------------------------
\* Bounds
\* ------------------------------------------------------------------------
MaxClock == 3
MaxRecs == 1
MaxRows == 2
MaxTerms == 2
MaxId == 3
MaxRanges == 2
MaxIds == 2
MaxSubjects == 2
MaxBloodRows == 1

\* ------------------------------------------------------------------------
\* Cell values, strings and numeric coercion
\* ------------------------------------------------------------------------
Str(s) == [t |-> "str", s |-> s, n |-> 0]
Num(n) == [t |-> "num", s |-> <<>>, n |-> n]
NaN == [t |-> "nan", s |-> <<>>, n |-> 0]

IsNull(v) == v.t = "nan"

Digits == {"0", "1", "2", "3", "4", "5", "6", "7", "8", "9"}

DigitVal(c) ==
    CASE c = "0" -> 0 [] c = "1" -> 1 [] c = "2" -> 2 [] c = "3" -> 3
      [] c = "4" -> 4 [] c = "5" -> 5 [] c = "6" -> 6 [] c = "7" -> 7
      [] c = "8" -> 8 [] c = "9" -> 9

IsNumericStr(s) == Len(s) > 0 /\ \A i \in 1..Len(s) : s[i] \in Digits

RECURSIVE ParseNat(_)
ParseNat(s) ==
    IF s = <<>> THEN 0
    ELSE 10 * ParseNat(SubSeq(s, 1, Len(s) - 1)) + DigitVal(s[Len(s)])

\* Series.str.contains(c, regex=False, na=False) on one cell
StrContains(v, c) == v.t = "str" /\ \E i \in 1..Len(v.s) : v.s[i] = c

\* pd.to_numeric(column, errors='ignore'): the whole column converts, or
\* none of it does.
Coercible(v) == v.t \in {"num", "nan"} \/ (v.t = "str" /\ IsNumericStr(v.s))

Coerce(v) == IF v.t = "str" THEN Num(ParseNat(v.s)) ELSE v

to_numeric(vals) ==
    IF \A i \in 1..Len(vals) : Coercible(vals[i])
    THEN [i \in 1..Len(vals) |-> Coerce(vals[i])]
    ELSE vals

\* The dtype pandas gives a column holding these values.
DType(vals) ==
    IF \E i \in 1..Len(vals) : vals[i].t \notin {"num", "nan"} THEN "object"
    ELSE IF \E i \in 1..Len(vals) : vals[i].t = "nan" THEN "float64"
    ELSE "int64"

\* ------------------------------------------------------------------------
\* Data frames: an ordered list of column names and a list of rows, each
\* row a function from the column names to cell values
\* ------------------------------------------------------------------------
Frame(cols, rows) == [cols |-> cols, rows |-> rows]

EmptyFrame == Frame(<<>>, <<>>)

ColSet(df) == {df.cols[i] : i \in 1..Len(df.cols)}

ColVals(df, c) == [i \in 1..Len(df.rows) |-> df.rows[i][c]]

NRows(df) == Len(df.rows)

\* df[c] = vals (a new column goes last)
SetCol(df, c, vals) ==
    Frame(IF c \in ColSet(df) THEN df.cols ELSE Append(df.cols, c),
          [i \in 1..Len(df.rows) |->
              [k \in ColSet(df) \cup {c} |-> IF k = c THEN vals[i] ELSE df.rows[i][k]]])

\* df.rename(columns={old: new})
RenameCol(df, old, new) ==
    Frame([i \in 1..Len(df.cols) |-> IF df.cols[i] = old THEN new ELSE df.cols[i]],
          [i \in 1..Len(df.rows) |->
              [k \in (ColSet(df) \ {old}) \cup (IF old \in ColSet(df) THEN {new} ELSE {}) |->
                  IF k = new /\ old \in ColSet(df) THEN df.rows[i][old] ELSE df.rows[i][k]]])

\* df.drop(columns=cs), for cs that are all present
DropCols(df, cs) ==
    Frame(SelectSeq(df.cols, LAMBDA c : c \notin cs),
          [i \in 1..Len(df.rows) |-> [k \in ColSet(df) \ cs |-> df.rows[i][k]]])

\* df.apply(f) column by column
ApplyToNumeric(df) ==
    Frame(df.cols,
          [i \in 1..Len(df.rows) |->
              [k \in ColSet(df) |-> to_numeric(ColVals(df, k))[i]]])

\* df.replace('N/A', np.nan)
S_NA == <<"N", "/", "A">>

ReplaceNA(df) ==
    Frame(df.cols,
          [i \in 1..Len(df.rows) |->
              [k \in ColSet(df) |->
                  IF df.rows[i][k] = Str(S_NA) THEN NaN ELSE df.rows[i][k]]])

RECURSIVE Flatten(_)
Flatten(ss) == IF ss = <<>> THEN <<>> ELSE Head(ss) \o Flatten(Tail(ss))

\* ------------------------------------------------------------------------
\* Display dictionaries
\* ------------------------------------------------------------------------
DisplayCol(f) == f \o "_display"

\* The fields of a term table, in order of first appearance (.unique()).
RECURSIVE UniqueFields(_)
UniqueFields(terms) ==
    IF terms = <<>> THEN <<>>
    ELSE LET rest == UniqueFields(SubSeq(terms, 1, Len(terms) - 1))
             f == terms[Len(terms)].api_field
         IN  IF \E i \in 1..Len(rest) : rest[i] = f THEN rest ELSE Append(rest, f)

\* One field's lookup table: the key column and the text column are each
\* coerced to numbers when every value of the column parses.
TermDf(terms, f) ==
    LET sel == SelectSeq(terms, LAMBDA r : r.api_field = f)
        keys == to_numeric([i \in 1..Len(sel) |-> sel[i].api_value])
        texts == to_numeric([i \in 1..Len(sel) |-> sel[i].display_text])
    IN  [field |-> f,
         dtype |-> DType(keys),
         terms |-> [i \in 1..Len(sel) |-> [value |-> keys[i], text |-> texts[i]]]]

\* A dictionary is the list of its fields' lookup tables, in key order.
get_display_dictionary(terms) ==
    LET fs == UniqueFields(terms)
    IN  [i \in 1..Len(fs) |-> TermDf(terms, fs[i])]

\* display_terms[display_terms.multi == 0]
UniFlag(r) == r.multi = 0

load_display_terms(terms) ==
    [display_terms |-> terms,
     display_terms_dict |->
        get_display_dictionary(SelectSeq(terms, UniFlag)),
     display_terms_dict_multi |->
        get_display_dictionary(SelectSeq(terms, LAMBDA r : r.multi = 1))]

DictFields(dict) == {dict[i].field : i \in 1..Len(dict)}

DictEntry(dict, f) == dict[CHOOSE i \in 1..Len(dict) : dict[i].field = f]

\* ------------------------------------------------------------------------
\* Left merge of a frame with one lookup table
\* ------------------------------------------------------------------------
\* pandas refuses to merge a string column with a numeric one.
MergeRaises(leftDtype, rightDtype) ==
    (leftDtype = "object") # (rightDtype = "object")

MatchingTerms(v, entry) == SelectSeq(entry.terms, LAMBDA t : t.value = v)

\* df.merge(lookup, how='left', on=entry.field): left order is kept, a row
\* is repeated once per matching term, an unmatched row gets a missing text.
LeftMerge(df, entry) ==
    LET f == entry.field
        d == DisplayCol(f)
        Ext(r, text) == [k \in ColSet(df) \cup {d} |-> IF k = d THEN text ELSE r[k]]
        RowsOf(r) ==
            LET m == MatchingTerms(r[f], entry)
            IN  IF m = <<>> THEN <<Ext(r, NaN)>>
                ELSE [j \in 1..Len(m) |-> Ext(r, m[j].text)]
    IN  Frame(Append(df.cols, d),
              Flatten([i \in 1..Len(df.rows) |-> RowsOf(df.rows[i])]))

\* ------------------------------------------------------------------------
\* clean_subjects_data
\* ------------------------------------------------------------------------
\* The loop of lines 179-185 from the k-th dictionary key on.  The result
\* carries the dictionary as the loop leaves it: line 184 assigns into the
\* lookup table that the caller's dictionary holds.
CastKeyObject(dict, k) == [dict EXCEPT ![k].dtype = "object"]

CastKey(dict, k) == [dict EXCEPT ![k].dtype = "float64"]

RECURSIVE MergeDisplayTerms(_, _, _)
MergeDisplayTerms(df, dict, k) ==
    IF k > Len(dict) THEN [raised |-> FALSE, df |-> df, dict |-> dict]
    ELSE IF dict[k].field \notin ColSet(df) THEN MergeDisplayTerms(df, dict, k + 1)
    ELSE
        LET left == DType(ColVals(df, dict[k].field))
        IN  IF left = "float64" /\ dict[k].dtype = "object"
            THEN [raised |-> TRUE, df |-> EmptyFrame, dict |-> dict]
            ELSE
                LET dict2 == IF left = "float64" THEN CastKey(dict, k) ELSE dict
                    right == IF left = "float64" THEN "float64" ELSE dict[k].dtype
                IN  IF MergeRaises(left, right)
                    THEN [raised |-> TRUE, df |-> EmptyFrame, dict |-> dict2]
                    ELSE MergeDisplayTerms(LeftMerge(df, dict[k]), dict2, k + 1)

\* Lines 170-173: keep the race column aside and overwrite multi-selects.
\* (with regex=True the pattern "|" is an empty alternation and matches
\* every string)
ContainsRegex(v, c) == v.t = "str"

Contains(v, c) == StrContains(v, c)

RaceStep(df) ==
    IF DType(ColVals(df, "dem_race")) # "object" THEN df
    ELSE
        LET race == ColVals(df, "dem_race")
            df2 == SetCol(df, "dem_race_original", race)
        IN  SetCol(df2, "dem_race",
                   [i \in 1..Len(race) |->
                       IF Contains(race[i], "|") THEN Str(<<"8">>) ELSE race[i]])

drop_cols_list == {"adverse_effects"}

clean_subjects_data(subjects_raw, terms_dict) ==
    IF ~(drop_cols_list \subseteq ColSet(subjects_raw)) \/ "dem_race" \notin ColSet(subjects_raw)
    THEN [raised |-> TRUE, df |-> EmptyFrame, dict |-> terms_dict,
          subjects_raw |-> subjects_raw]
    ELSE
        LET s1 == RenameCol(subjects_raw, "index", "record_id")
            s2 == DropCols(s1, drop_cols_list)
            s3 == ReplaceNA(s2)
            s4 == RaceStep(s3)
            s5 == ApplyToNumeric(s4)
            m == MergeDisplayTerms(s5, terms_dict, 1)
        IN  [raised |-> m.raised, df |-> m.df, dict |-> m.dict,
             subjects_raw |-> subjects_raw]

\* ------------------------------------------------------------------------
\* add_screening_site
\* ------------------------------------------------------------------------
\* ids.id between ss.record_id_start and ss.record_id_end (a NULL or a text
\* id is inside no range)
BetweenHalfOpen(v, r) ==
    v.t = "num" /\ r.record_id_start <= v.n /\ v.n < r.record_id_end

Between(v, r) ==
    v.t = "num" /\ r.record_id_start <= v.n /\ v.n <= r.record_id_end

\* The SQL join: one (id, screening_site) row per pair of an ids row and a
\* range that contains the id.
SitesOf(screening_sites, idvals) ==
    Flatten([i \in 1..Len(idvals) |->
        LET m == SelectSeq(screening_sites, LAMBDA r : Between(idvals[i], r))
        IN  [j \in 1..Len(m) |-> [id |-> idvals[i], screening_site |-> m[j].screening_site]]])

\* sites.merge(df, how='left', on=id_col)
add_screening_site(screening_sites, df, id_col) ==
    IF id_col \notin ColSet(df) THEN [raised |-> TRUE, df |-> EmptyFrame]
    ELSE
        LET sites == SitesOf(screening_sites, ColVals(df, id_col))
            rest == SelectSeq(df.cols, LAMBDA c : c # id_col)
            Ext(r, s) ==
                [k \in ColSet(df) \cup {"screening_site"} |->
                    IF k = "screening_site" THEN Str(s.screening_site) ELSE r[k]]
            RowsOf(s) ==
                LET m == SelectSeq(df.rows, LAMBDA r : r[id_col] = s.id)
                IN  [j \in 1..Len(m) |-> Ext(m[j], s)]
        IN  [raised |-> FALSE,
             df |-> Frame(<<id_col, "screening_site">> \o rest,
                          Flatten([i \in 1..Len(sites) |-> RowsOf(sites[i])]))]

\* ------------------------------------------------------------------------
\* get_consented_subjects
\* ------------------------------------------------------------------------
use_b_if_not_a(a, b) == IF ~IsNull(a) THEN a ELSE b

\* On a frame without rows, apply(axis=1) hands back a frame and not a
\* column; assigning it to one column raises in the pandas builds that
\* check the shape (strict) and is accepted by the others.
get_consented_subjects(df, strict) ==
    IF ~({"sp_data_site_display", "redcap_data_access_group_display"} \subseteq ColSet(df))
    THEN [raised |-> TRUE, df |-> EmptyFrame]
    ELSE IF df.rows = <<>> /\ strict
    THEN [raised |-> TRUE, df |-> EmptyFrame]
    ELSE [raised |-> FALSE,
          df |-> SetCol(df, "treatment_site",
                        [i \in 1..Len(df.rows) |->
                            use_b_if_not_a(df.rows[i]["sp_data_site_display"],
                                           df.rows[i]["redcap_data_access_group_display"])])]

\* ------------------------------------------------------------------------
\* extract_adverse_effects_data and clean_adverse_events
\* ------------------------------------------------------------------------
\* An adverse-effects cell is a dictionary: a list of instances, each an
\* instance key and a list of (field name, value) pairs.
Dict(d) == [t |-> "dict", s |-> <<>>, n |-> 0, d |-> d]

index_cols == <<"index", "main_record_id", "mcc">>

\* r'^\s*$'
IsBlank(v) == v.t = "str" /\ \A i \in 1..Len(v.s) : v.s[i] = " "

BlankToNaN(v) == IF IsBlank(v) THEN NaN ELSE v

RECURSIVE UniqueNames(_)
UniqueNames(names) ==
    IF names = <<>> THEN <<>>
    ELSE LET rest == UniqueNames(SubSeq(names, 1, Len(names) - 1))
             f == names[Len(names)]
         IN  IF \E i \in 1..Len(rest) : rest[i] = f THEN rest ELSE Append(rest, f)

FieldNames(inst) == [i \in 1..Len(inst.fields) |-> inst.fields[i].name]

FieldValue(inst, f) ==
    IF \E i \in 1..Len(inst.fields) : inst.fields[i].name = f
    THEN inst.fields[CHOOSE i \in 1..Len(inst.fields) : inst.fields[i].name = f].value
    ELSE NaN

\* The (subject, instance) pairs the comprehension of lines 109-113 walks.
Instances(present) ==
    Flatten([i \in 1..Len(present) |->
        [j \in 1..Len(present[i]["adverse_effects"].d) |->
            [subject |-> present[i], inst |-> present[i]["adverse_effects"].d[j]]]])

\* DataFrame.from_dict(..., orient='index') goes through the fields: an
\* instance without fields leaves no row.
HasRow(p) == p.inst.fields # <<>>

extract_adverse_effects_data(subjects_data) ==
    LET cols == ColSet(subjects_data)
        Key(r) == <<r["index"], r["main_record_id"], r["mcc"]>>
        present == SelectSeq(subjects_data.rows,
                             LAMBDA r : ~IsNull(r["adverse_effects"]))
        Fail == [raised |-> TRUE, df |-> EmptyFrame]
    IN  IF ~({"index", "main_record_id", "mcc", "adverse_effects"} \subseteq cols)
        THEN Fail
        \* to_dict('index') needs a unique index
        ELSE IF \E i, j \in 1..Len(present) : i # j /\ Key(present[i]) = Key(present[j])
        THEN Fail
        \* .keys() of a cell that is no dictionary
        ELSE IF \E i \in 1..Len(present) : present[i]["adverse_effects"].t # "dict"
        THEN Fail
        ELSE
            LET pairs == SelectSeq(Instances(present), HasRow)
                fields == UniqueNames(Flatten([i \in 1..Len(pairs) |-> FieldNames(pairs[i].inst)]))
                allcols == index_cols \o <<"instance">> \o fields
                Row(p) ==
                    [k \in {allcols[i] : i \in 1..Len(allcols)} |->
                        IF k = "instance" THEN Str(p.inst.key)
                        ELSE IF k \in {"index", "main_record_id", "mcc"} THEN p.subject[k]
                        ELSE BlankToNaN(FieldValue(p.inst, k))]
            IN  \* no row at all: the frame has no 'level_0' column
                IF pairs = <<>> THEN Fail
                ELSE [raised |-> FALSE,
                      df |-> Frame(allcols, [i \in 1..Len(pairs) |-> Row(pairs[i])])]

\* The merge loop of clean_adverse_events (no cast of the lookup table).
RECURSIVE MergeMultiTerms(_, _, _)
MergeMultiTerms(df, dict, k) ==
    IF k > Len(dict) THEN [raised |-> FALSE, df |-> df]
    ELSE IF dict[k].field \notin ColSet(df) THEN MergeMultiTerms(df, dict, k + 1)
    ELSE IF MergeRaises(DType(ColVals(df, dict[k].field)), dict[k].dtype)
    THEN [raised |-> TRUE, df |-> EmptyFrame]
    ELSE MergeMultiTerms(LeftMerge(df, dict[k]), dict, k + 1)

\* Returns None (isnone) when anything inside its try block raises.
clean_adverse_events(adverse_events, terms_dict_multi) ==
    LET m == MergeMultiTerms(ApplyToNumeric(adverse_events),
                             terms_dict_multi, 1)
    IN  [isnone |-> m.raised, df |-> m.df]

\* ------------------------------------------------------------------------
\* Blood data: simplify_blooddata and clean_blooddata
\* ------------------------------------------------------------------------
NaT == [t |-> "nat", s |-> <<>>, n |-> 0]
Timestamp(secs) == [t |-> "time", s |-> <<>>, n |-> secs]
Timedelta(secs) == [t |-> "timedelta", s |-> <<>>, n |-> secs]
Bool(b) == [t |-> "bool", s |-> <<>>, n |-> IF b THEN 1 ELSE 0]

SecondsPerMinute == 60
SecondsPerHour == 3600
SecondsPerDay == 86400

\* A timestamp is written "DD HH:MM:SS" (DD: day of the month).
IsTimeStr(s) ==
    /\ Len(s) = 11
    /\ s[3] = " " /\ s[6] = ":" /\ s[9] = ":"
    /\ \A i \in {1, 2, 4, 5, 7, 8, 10, 11} : s[i] \in Digits

ParseTime(s) ==
    ParseNat(SubSeq(s, 1, 2)) * SecondsPerDay + ParseNat(SubSeq(s, 4, 5)) * SecondsPerHour
        + ParseNat(SubSeq(s, 7, 8)) * SecondsPerMinute + ParseNat(SubSeq(s, 10, 11))

\* pd.to_datetime(cell, errors='coerce')
to_datetime(v) ==
    IF v.t = "time" THEN v
    ELSE IF v.t = "str" /\ IsTimeStr(v.s) THEN Timestamp(ParseTime(v.s))
    ELSE NaT

\* pd.to_numeric(cell, errors='coerce')
to_numeric_coerce(v) == IF Coercible(v) THEN Coerce(v) ELSE NaN

\* b - a on two datetime cells
TimeDiff(b, a) == IF a.t = "time" /\ b.t = "time" THEN Timedelta(b.n - a.n) ELSE NaT

\* .dt.components['hours']*60 + .dt.components['minutes']: the days and the
\* seconds of the duration are left out; a negative duration has days = -1
\* and the rest counted up from midnight.
ComponentMinutes(td) ==
    IF td.t = "timedelta"
    THEN Num(((td.n % SecondsPerDay) \div SecondsPerHour) * 60
             + ((td.n % SecondsPerHour) \div SecondsPerMinute))
    ELSE NaN

CentrifugeLimit == 30
FreezerLimit == 60

\* Comparisons with a missing value are False.
NumLess(a, b) == a.t = "num" /\ b.t = "num" /\ a.n < b.n
NumLeq(a, k) == a.t = "num" /\ a.n <= k

TimeValuesCheck(c, f) ==
    NumLess(c, f) /\ NumLeq(c, CentrifugeLimit) /\ NumLeq(f, FreezerLimit)

\* 'MCC' + MCC.astype(str) + ': ' + screening_site
SiteLabel(mcc, site) ==
    IF site.t # "str" THEN NaN
    ELSE Str(<<"M", "C", "C">>
             \o (IF mcc.t = "str" THEN mcc.s ELSE <<"n", "a", "n">>)
             \o <<":", " ">> \o site.s)

deviation_dict ==
    <<[value |-> Num(1), text |-> "Unable to obtain blood sample -technical reason"],
      [value |-> Num(2), text |-> "Unable to obtain blood sample -patient related"],
      [value |-> Num(3), text |-> "Sample handling/processing error"]>>

DeviationReason(v) ==
    IF \E i \in 1..Len(deviation_dict) : deviation_dict[i].value = v
    THEN [NaN EXCEPT !.t = "text",
                     !.s = <<deviation_dict[CHOOSE i \in 1..Len(deviation_dict) :
                                               deviation_dict[i].value = v].text>>]
    ELSE NaN

visit_cols == {"Baseline Visit", "6-Wks Post-Op", "3-Mo Post-Op"}

\* df.insert(pos, col, values) after df.pop(col)
MoveColumn(df, col, pos) ==
    LET others == SelectSeq(df.cols, LAMBDA c : c # col)
    IN  Frame(SubSeq(others, 1, pos) \o <<col>> \o SubSeq(others, pos + 1, Len(others)),
              df.rows)

\* simplify_blooddata works on the frame it is given: the result and the
\* caller's frame (arg) are one object.
simplify_blooddata(blood_df) ==
    IF ~(visit_cols \subseteq ColSet(blood_df))
    THEN [raised |-> TRUE, df |-> EmptyFrame, arg |-> blood_df]
    ELSE
        LET dropped == DropCols(blood_df, visit_cols)
        IN  IF "Visit" \notin ColSet(dropped) \/ Len(dropped.cols) < 3
            THEN [raised |-> TRUE, df |-> EmptyFrame, arg |-> dropped]
            ELSE LET moved == MoveColumn(dropped, "Visit", 2)
                 IN  [raised |-> FALSE, df |-> moved, arg |-> moved]

numeric_cols == <<"bscp_aliq_cnt", "bscp_protocol_dev", "bscp_protocol_dev_reason">>
datetime_cols == <<"bscp_time_blood_draw", "bscp_aliquot_freezer_time", "bscp_time_centrifuge">>

\* blood_df[numeric_cols] = blood_df[numeric_cols].apply(pd.to_numeric, errors='coerce')
NumericCols(df) ==
    Frame(df.cols,
          [i \in 1..Len(df.rows) |->
              [k \in ColSet(df) |->
                  IF \E j \in 1..Len(numeric_cols) : numeric_cols[j] = k
                  THEN to_numeric_coerce(df.rows[i][k]) ELSE df.rows[i][k]]])

\* blood_df[datetime_cols] = blood_df[datetime_cols].apply(pd.to_datetime, errors='coerce')
DatetimeCols(df) ==
    Frame(df.cols,
          [i \in 1..Len(df.rows) |->
              [k \in ColSet(df) |->
                  IF \E j \in 1..Len(datetime_cols) : datetime_cols[j] = k
                  THEN to_datetime(df.rows[i][k]) ELSE df.rows[i][k]]])

\* Lines 265-286: every step assigns into the frame the caller passed.
BloodInPlace(blood_df) ==
    LET b1 == NumericCols(blood_df)
        b2 == DatetimeCols(b1)
        N == Len(b2.rows)
        ttf == [i \in 1..N |-> TimeDiff(b2.rows[i]["bscp_aliquot_freezer_time"],
                                        b2.rows[i]["bscp_time_blood_draw"])]
        ttc == [i \in 1..N |-> TimeDiff(b2.rows[i]["bscp_time_centrifuge"],
                                        b2.rows[i]["bscp_time_blood_draw"])]
        ttfm == [i \in 1..N |-> ComponentMinutes(ttf[i])]
        ttcm == [i \in 1..N |-> ComponentMinutes(ttc[i])]
        b3 == SetCol(SetCol(b2, "time_to_freezer", ttf), "time_to_freezer_minutes", ttfm)
        b4 == SetCol(SetCol(b3, "time_to_centrifuge", ttc), "time_to_centrifuge_minutes", ttcm)
        b5 == SetCol(b4, "time_values_check",
                     [i \in 1..N |-> Bool(TimeValuesCheck(ttcm[i], ttfm[i]))])
    IN  SetCol(b5, "Site",
               [i \in 1..N |-> SiteLabel(b5.rows[i]["MCC"], b5.rows[i]["screening_site"])])

rename_dict ==
    <<<<"index", "ID">>, <<"screening_site", "Screening Site">>,
      <<"bscp_deg_of_hemolysis", "Hemolysis">>>>

RECURSIVE RenameAll(_, _)
RenameAll(df, pairs) ==
    IF pairs = <<>> THEN df
    ELSE RenameAll(RenameCol(df, Head(pairs)[1], Head(pairs)[2]), Tail(pairs))

BloodRequired ==
    {numeric_cols[i] : i \in 1..3} \cup {datetime_cols[i] : i \in 1..3}
        \cup {"MCC", "screening_site"}

\* The frame clean_blooddata hands back is new (made by the merge of line
\* 295); arg is the caller's frame as the call leaves it.
clean_blooddata(blood_df) ==
    IF ~(BloodRequired \subseteq ColSet(blood_df))
    THEN [raised |-> TRUE, df |-> EmptyFrame, arg |-> blood_df]
    ELSE
        LET inplace == BloodInPlace(blood_df)
            merged == SetCol(inplace, "Deviation Reason",
                             [i \in 1..Len(inplace.rows) |->
                                 DeviationReason(inplace.rows[i]["bscp_protocol_dev_reason"])])
        IN  [raised |-> FALSE, df |-> RenameAll(merged, rename_dict), arg |-> inplace]

\* ------------------------------------------------------------------------
\* Inputs of the cleaning functions
\* ------------------------------------------------------------------------
DigitChar(i) ==
    CASE i = 0 -> "0" [] i = 1 -> "1" [] i = 2 -> "2" [] i = 3 -> "3" [] i = 4 -> "4"
      [] i = 5 -> "5" [] i = 6 -> "6" [] i = 7 -> "7" [] i = 8 -> "8" [] i = 9 -> "9"

\* The elements of pool whose positions are in S, in pool order.
Pick(pool, S) ==
    LET idx == SelectSeq([i \in 1..Len(pool) |-> i], LAMBDA i : i \in S)
    IN  [j \in 1..Len(idx) |-> pool[idx[j]]]

SubPools(pool, max) ==
    {Pick(pool, S) : S \in {T \in SUBSET (1..Len(pool)) : Cardinality(T) <= max}}

\* Raw subjects table, as combine_mcc_json leaves it.
RawCols ==
    <<"index", "main_record_id", "mcc", "adverse_effects", "dem_race",
      "sp_data_site", "redcap_data_access_group">>

RawRow(i, ae, race, site, dag) ==
    [k \in {RawCols[j] : j \in 1..Len(RawCols)} |->
        CASE k = "index" -> Str(<<DigitChar(i)>>)
          [] k = "main_record_id" -> Str(<<DigitChar(i)>>)
          [] k = "mcc" -> Str(<<"1">>)
          [] k = "adverse_effects" -> ae
          [] k = "dem_race" -> race
          [] k = "sp_data_site" -> site
          [] k = "redcap_data_access_group" -> dag]

RaceVals == {Str(<<"1">>), Str(<<"1", "|", "2">>), Str(<<"x">>), Str(S_NA), Num(1)}
SiteVals == {Str(<<"1">>), Str(<<"x">>), Str(S_NA)}

\* A race column is either all numbers or all strings with at least one
\* value other than 'N/A' (what dtype replace() leaves an all-missing
\* object column with depends on the pandas version).
RaceTyped(race) ==
    \/ \A i \in DOMAIN race : race[i].t = "num"
    \/ /\ \A i \in DOMAIN race : race[i].t = "str"
       /\ \E i \in DOMAIN race : race[i] # Str(S_NA)

SubjectTables ==
    UNION {
        {Frame(RawCols, [i \in 1..n |-> RawRow(i, NaN, race[i], site[i], Str(<<"1">>))]) :
            race \in {r \in [1..n -> RaceVals] : RaceTyped(r)}, site \in [1..n -> SiteVals]}
        : n \in 1..MaxRows}

\* Display terms, as read from the reference file (text cells).
Term(f, v, text, multi) ==
    [api_field |-> f, api_value |-> Str(v), display_text |-> Str(text), multi |-> multi]

TermPool ==
    <<Term("sp_data_site", <<"1">>, <<"A">>, 0),
      Term("sp_data_site", <<"x">>, <<"B">>, 0),
      Term("sp_data_site", <<"1">>, <<"B">>, 0),
      Term("sp_data_site", <<"1">>, <<"C">>, 1),
      Term("dem_race", <<"8">>, <<"A">>, 0),
      Term("redcap_data_access_group", <<"1">>, <<"B">>, 0)>>

TermTables == SubPools(TermPool, MaxTerms)

\* Screening-site ranges and the tables joined against them.
SiteName(k) == <<CASE k = 1 -> "A" [] k = 2 -> "B" [] k = 3 -> "C" [] OTHER -> "D">>

RangeTables ==
    UNION {
        {[k \in 1..n |-> [record_id_start |-> lo[k], record_id_end |-> hi[k],
                          screening_site |-> SiteName(k)]] :
            lo \in [1..n -> 1..MaxId], hi \in [1..n -> 1..MaxId]}
        : n \in 0..MaxRanges}

IdVals == {Num(i) : i \in 1..MaxId} \cup {NaN}

IdTables ==
    UNION {
        {Frame(<<"record_id", "row">>,
               [i \in 1..n |-> [k \in {"record_id", "row"} |->
                                   IF k = "record_id" THEN ids[i] ELSE Num(i)]]) :
            ids \in [1..n -> IdVals]}
        : n \in 0..MaxIds}

\* Adverse-effects cells.
Field(name, v) == [name |-> name, value |-> Str(v)]
Inst(key, fields) == [key |-> <<key>>, fields |-> fields]

AECells ==
    {NaN,
     Dict(<<>>),
     Dict(<<Inst("0", <<>>)>>),
     Dict(<<Inst("0", <<Field("a", <<"1">>)>>)>>),
     Dict(<<Inst("0", <<Field("a", <<"x">>), Field("b", <<" ">>)>>),
            Inst("1", <<Field("b", <<>>)>>)>>),
     Dict(<<Inst("0", <<Field("a", <<"1">>), Field("b", <<"2">>), Field("c", <<"x">>)>>),
            Inst("1", <<Field("a", <<"2">>), Field("b", <<"x">>), Field("c", <<"1">>)>>)>>)}

AECols == <<"index", "main_record_id", "mcc", "adverse_effects">>

AETables ==
    UNION {
        {Frame(AECols,
               [i \in 1..n |-> [k \in {AECols[j] : j \in 1..4} |->
                   CASE k = "index" -> Str(<<DigitChar(idx[i])>>)
                     [] k = "main_record_id" -> Str(<<DigitChar(idx[i])>>)
                     [] k = "mcc" -> Str(<<"1">>)
                     [] k = "adverse_effects" -> cell[i]]]) :
            idx \in [1..n -> 1..2], cell \in [1..n -> AECells]}
        : n \in 0..MaxSubjects}

\* Blood tables, as bloodjson_to_df leaves them (withVisits) or as
\* simplify_blooddata does (without the three visit columns).
T(d, h1, h2, m1, m2, s1, s2) == Str(<<"0", d, " ", h1, h2, ":", m1, m2, ":", s1, s2>>)

DrawTimes == {T("1", "1", "0", "0", "0", "0", "0"), Str(<<"x">>)}

CentrifugeTimes ==
    {T("1", "1", "0", "0", "0", "1", "0"),   \* 10 seconds after the draw
     T("1", "1", "0", "3", "0", "0", "0"),   \* 30 minutes
     T("1", "1", "0", "3", "0", "3", "0"),   \* 30 minutes 30 seconds
     T("1", "1", "0", "3", "1", "0", "0"),   \* 31 minutes
     T("2", "1", "0", "1", "0", "0", "0"),   \* a day and 10 minutes
     T("1", "0", "9", "5", "9", "0", "0"),   \* a minute before the draw
     Str(<<"x">>)}

FreezerTimes ==
    {T("1", "1", "0", "0", "0", "5", "0"),   \* 50 seconds after the draw
     T("1", "1", "0", "2", "0", "0", "0"),   \* 20 minutes
     T("1", "1", "1", "0", "0", "0", "0"),   \* 60 minutes
     T("1", "1", "1", "0", "0", "3", "0"),   \* 60 minutes 30 seconds
     T("1", "1", "1", "0", "1", "0", "0"),   \* 61 minutes
     T("2", "1", "0", "2", "0", "0", "0"),   \* a day and 20 minutes
     Str(<<"x">>)}

ReasonVals == {Str(<<"1">>), Str(<<"x">>)}

BloodFieldCols ==
    <<"bscp_aliq_cnt", "bscp_protocol_dev", "bscp_protocol_dev_reason",
      "bscp_time_blood_draw", "bscp_aliquot_freezer_time", "bscp_time_centrifuge",
      "bscp_deg_of_hemolysis">>

BloodCols(withVisits) ==
    <<"index", "MCC", "screening_site">>
        \o (IF withVisits THEN <<"Baseline Visit">> ELSE <<>>)
        \o <<"Visit">> \o BloodFieldCols
        \o (IF withVisits THEN <<"6-Wks Post-Op", "3-Mo Post-Op">> ELSE <<>>)

BloodRow(withVisits, i, draw, cent, frz, reason) ==
    LET cols == BloodCols(withVisits)
    IN  [k \in {cols[j] : j \in 1..Len(cols)} |->
            CASE k = "index" -> Str(<<DigitChar(i)>>)
              [] k = "MCC" -> Str(<<"1">>)
              [] k = "screening_site" -> Str(<<"A">>)
              [] k = "Baseline Visit" -> Dict(<<>>)
              [] k = "6-Wks Post-Op" -> NaN
              [] k = "3-Mo Post-Op" -> NaN
              [] k = "Visit" -> Str(<<"B">>)
              [] k = "bscp_aliq_cnt" -> Str(<<"2">>)
              [] k = "bscp_protocol_dev" -> Str(<<"1">>)
              [] k = "bscp_protocol_dev_reason" -> reason
              [] k = "bscp_time_blood_draw" -> draw
              [] k = "bscp_aliquot_freezer_time" -> frz
              [] k = "bscp_time_centrifuge" -> cent
              [] k = "bscp_deg_of_hemolysis" -> Str(<<"0">>)]

BloodTablesOf(visits, draws, cents, frzs, reasons, max) ==
    UNION {
        {Frame(BloodCols(w), [i \in 1..n |-> BloodRow(w, i, d[i], c[i], f[i], r[i])]) :
            w \in visits, d \in [1..n -> draws], c \in [1..n -> cents],
            f \in [1..n -> frzs], r \in [1..n -> reasons]}
        : n \in 1..max}

BloodTables ==
    BloodTablesOf(BOOLEAN, DrawTimes, CentrifugeTimes, FreezerTimes, ReasonVals, MaxBloodRows)

\* ------------------------------------------------------------------------
\* Python values returned by the top-level functions
\* ------------------------------------------------------------------------
NoDate == 0 - 1

Unset ==
    [type |-> "unset", keys |-> {}, status |-> "", source |-> "", step |-> "",
     date |-> NoDate, data |-> {}, items |-> <<>>]

PyNone == [Unset EXCEPT !.type = "None"]

PyList(items) == [Unset EXCEPT !.type = "list", !.items = items]

\* {'status':'500', 'source': file}
StatusSource(file) ==
    [Unset EXCEPT !.type = "dict", !.keys = {"status", "source"},
                  !.status = "500", !.source = file]

\* {'status':'this is annoying'}
StatusOnly == [Unset EXCEPT !.type = "dict", !.keys = {"status"},
                            !.status = "this is annoying"]

\* {'step fail': n}
StepFail(n) == [Unset EXCEPT !.type = "dict", !.keys = {"step fail"}, !.step = n]

\* {'date': d, 'data': views}; views is a set of [name, records]
DateData(d, views) ==
    [Unset EXCEPT !.type = "dict", !.keys = {"date", "data"},
                  !.date = d, !.data = views]

\* ------------------------------------------------------------------------
\* Remote fetchers
\* ------------------------------------------------------------------------
Fetchers == {"get_api_subjects", "get_api_imaging", "get_api_blood"}

api_dict ==
    [get_api_subjects |-> <<"subjects-1-latest.json", "subjects-2-latest.json">>,
     get_api_imaging  |-> <<"imaging-log-latest.csv", "qc-log-latest.csv">>,
     get_api_blood    |-> <<"blood-1-latest.json", "blood-2-latest.json">>]

\* What one requests.get can do: raise (no answer), or answer with a status
\* and a body.  A body is unparsable (.json() / read_csv raises), malformed
\* (parses, but is not of the shape the combination step needs) or holds n
\* well-formed records.
Statuses == {200, 201, 404, 500}
BodyKinds == {"unparsable", "malformed", "records"}
Responses ==
    [raises : {TRUE}, status : {0}, kind : {"unparsable"}, n : {0}]
    \cup [raises : {FALSE}, status : Statuses \ {200}, kind : {"unparsable"}, n : {0}]
    \cup [raises : {FALSE}, status : {200}, kind : {"unparsable", "malformed"}, n : {0}]
    \cup [raises : {FALSE}, status : {200}, kind : {"records"}, n : 0..MaxRecs]

\* The value the outermost except clause of a top-level function returns.
HandlerRet(f) == IF f = "get_api_subjects" THEN StatusOnly ELSE PyNone

\* except Exception as e: print the trace and return, never re-raise
HandlerReraise(v) == [ret |-> Unset, raised |-> TRUE]

Handler(v) == [ret |-> v, raised |-> FALSE]

\* combine_mcc_json: one flat record per subject, tagged with its centre.
McCRows(mcc, body) == [i \in 1..body.n |-> [index |-> i, mcc |-> mcc]]

combine_mcc_json(b1, b2) ==
    IF b1.kind = "malformed" \/ b2.kind = "malformed"
    THEN [raised |-> TRUE, rows |-> <<>>]
    ELSE [raised |-> FALSE, rows |-> McCRows("1", b1) \o McCRows("2", b2)]

\* bloodjson_to_df: one row per (subject, visit) of every non-empty centre.
dict_cols == <<"Baseline Visit", "6-Wks Post-Op", "3-Mo Post-Op">>

BloodRows(mcc, body) ==
    [k \in 1..(3 * body.n) |->
        [index |-> ((k - 1) \div 3) + 1, MCC |-> mcc, Visit |-> dict_cols[((k - 1) % 3) + 1]]]

bloodjson_to_df(b1, b2) ==
    IF b1.kind = "malformed" \/ b2.kind = "malformed"
    THEN [raised |-> TRUE, rows |-> <<>>]
    ELSE [raised |-> FALSE, rows |-> BloodRows("1", b1) \o BloodRows("2", b2)]

\* simplify_blooddata inside get_api_blood: dropping the three visit columns
\* raises KeyError on the column-less frame that two empty centres leave.
SimplifyFetched(df) ==
    IF df.raised \/ df.rows = <<>>
    THEN [raised |-> TRUE, rows |-> <<>>]
    ELSE df

CsvRows(body) == [i \in 1..body.n |-> [row |-> i]]

\* current_datetime = datetime.now(), before the try block
Call(f) ==
    /\ pc = "idle"
    /\ now < MaxClock
    /\ fn' = f
    /\ current_datetime' = now
    /\ pc' = "request1"
    /\ requests' = <<>>
    /\ payload' = <<>>
    /\ combined' = FALSE
    /\ answers' = <<>>
    /\ failure' = "none"
    /\ ret' = Unset
    /\ raised' = FALSE
    /\ op' = f
    /\ UNCHANGED <<now, arg, arg_after, out, session>>

\* The 'source' of the failure value returned for the k-th resource.
FailingSourceFirst(f, k) == api_dict[f][1]

FailingSource(f, k) == api_dict[f][k]

\* One requests.get and the status test that follows it (k = 1, 2).
Request(k, resp) ==
    /\ pc = IF k = 1 THEN "request1" ELSE "request2"
    /\ requests' = Append(requests, api_dict[fn][k])
    /\ answers' = Append(answers, resp.status)
    /\ now' = IF now < MaxClock THEN now + 1 ELSE now
    /\ IF resp.raises
       THEN /\ ret' = Handler(HandlerRet(fn)).ret
            /\ raised' = Handler(HandlerRet(fn)).raised
            /\ failure' = "request"
            /\ pc' = "done"
            /\ UNCHANGED payload
       ELSE IF resp.status # 200
       THEN /\ ret' = StatusSource(FailingSource(fn, k))
            /\ failure' = "status"
            /\ pc' = "done"
            /\ UNCHANGED <<payload, raised>>
       ELSE IF resp.kind = "unparsable"
       THEN /\ ret' = Handler(HandlerRet(fn)).ret
            /\ raised' = Handler(HandlerRet(fn)).raised
            /\ failure' = "parse"
            /\ pc' = "done"
            /\ UNCHANGED payload
       ELSE /\ payload' = Append(payload, resp)
            /\ pc' = IF k = 1 THEN "request2" ELSE "output"
            /\ UNCHANGED <<ret, failure, raised>>
    /\ UNCHANGED <<fn, current_datetime, combined, frame, session>>

\* get_api_subjects, lines 340-356
SubjectsOutput ==
    /\ pc = "output"
    /\ fn = "get_api_subjects"
    /\ combined' = TRUE
    /\ LET df == combine_mcc_json(payload[1], payload[2])
       IN  /\ ret' = IF df.raised THEN StepFail("2") ELSE PyList(df.rows)
           /\ failure' = IF df.raised THEN "combine" ELSE "none"
    /\ pc' = "done"
    /\ UNCHANGED <<fn, now, current_datetime, requests, payload, answers, raised,
                   frame, session>>

\* get_api_imaging, lines 419-430
ImagingOutputRetNow(date, p) ==
    DateData(now, {[name |-> "imaging", records |-> CsvRows(p[1])],
                   [name |-> "qc", records |-> CsvRows(p[2])]})

ImagingOutputRet(date, p) ==
    DateData(date, {[name |-> "imaging", records |-> CsvRows(p[1])],
                    [name |-> "qc", records |-> CsvRows(p[2])]})

ImagingOutput ==
    /\ pc = "output"
    /\ fn = "get_api_imaging"
    /\ ret' = ImagingOutputRet(current_datetime, payload)
    /\ pc' = "done"
    /\ UNCHANGED <<fn, now, current_datetime, requests, payload, combined, answers,
                   failure, raised, frame, session>>

\* get_api_blood, lines 464-477
BloodOutput ==
    /\ pc = "output"
    /\ fn = "get_api_blood"
    /\ combined' = TRUE
    /\ LET blood == SimplifyFetched(bloodjson_to_df(payload[1], payload[2]))
           v == IF blood.raised
                THEN Handler(HandlerRet(fn))
                ELSE [ret |-> DateData(current_datetime,
                                       {[name |-> "blood", records |-> blood.rows]}),
                      raised |-> FALSE]
       IN  /\ ret' = v.ret
           /\ raised' = v.raised
           /\ failure' = IF blood.raised THEN "combine" ELSE "none"
    /\ pc' = "done"
    /\ UNCHANGED <<fn, now, current_datetime, requests, payload, answers, frame, session>>

\* The caller takes the returned value; the frame of the call is gone.
Return ==
    /\ pc = "done"
    /\ pc' = "idle"
    /\ fn' = "none"
    /\ requests' = <<>>
    /\ payload' = <<>>
    /\ combined' = FALSE
    /\ answers' = <<>>
    /\ failure' = "none"
    /\ current_datetime' = NoDate
    /\ ret' = Unset
    /\ raised' = FALSE
    /\ op' = "none"
    /\ arg' = <<>>
    /\ arg_after' = <<>>
    /\ out' = <<>>
    /\ UNCHANGED <<now, session>>

\* ------------------------------------------------------------------------
\* create_clean_subjects
\* ------------------------------------------------------------------------
\* Names bound inside create_clean_subjects when line 381 runs: its
\* parameters and locals, and the names the module defines or imports.
CreateCleanSubjectsLocals ==
    {"subjects_raw", "screening_sites", "display_terms_dict", "display_terms_dict_multi",
     "subjects", "consented", "adverse_events", "data"}

ModuleNames ==
    {"traceback", "os", "io", "requests", "pathlib", "np", "pd", "sqlite3", "datetime",
     "timedelta", "use_b_if_not_a", "dict_to_col", "move_column_inplace",
     "load_display_terms", "get_display_dictionary", "combine_mcc_json",
     "extract_adverse_effects_data", "clean_adverse_events", "clean_subjects_data",
     "add_screening_site", "get_consented_subjects", "bloodjson_to_df",
     "simplify_blooddata", "clean_blooddata", "get_api_subjects",
     "create_clean_subjects", "get_api_imaging", "get_api_blood"}

NameBound(name) == name \in CreateCleanSubjectsLocals \cup ModuleNames

\* df.to_dict('records'), kept as the frame's rows
Records(df) == df.rows

\* The whole body: the value returned, the step that raised (if any) and
\* the single-valued dictionary as the call leaves it.
create_clean_subjects(subjects_raw, screening_sites, terms_dict, terms_dict_multi, strict) ==
    LET c == clean_subjects_data(subjects_raw, terms_dict)
        s == add_screening_site(screening_sites, c.df, "record_id")
        consented == get_consented_subjects(s.df, strict)
        ex == extract_adverse_effects_data(subjects_raw)
        ae == clean_adverse_events(ex.df, terms_dict_multi)
        data == {[name |-> "subjects", records |-> Records(s.df)],
                 [name |-> "consented", records |-> Records(consented.df)],
                 [name |-> "adverse_events", records |-> Records(ae.df)]}
        None(step) == [ret |-> PyNone, failure |-> step, dict |-> c.dict]
    IN  IF c.raised THEN None("clean_subjects_data")
        ELSE IF s.raised THEN None("add_screening_site")
        ELSE IF consented.raised THEN None("get_consented_subjects")
        ELSE IF ex.raised THEN None("extract_adverse_effects_data")
        ELSE IF ae.isnone THEN None("clean_adverse_events")
        ELSE IF ~NameBound("current_datetime") THEN None("current_datetime")
        ELSE [ret |-> DateData(current_datetime, data), failure |-> "none", dict |-> c.dict]

\* Inputs of create_clean_subjects.
CCSRows ==
    <<RawRow(1, Dict(<<Inst("0", <<Field("a", <<"1">>)>>)>>),
             Str(<<"1", "|", "2">>), Str(<<"1">>), Str(<<"1">>)),
      RawRow(2, NaN, Str(<<"1">>), Str(S_NA), Str(<<"1">>)),
      RawRow(3, NaN, Str(<<"x">>), Str(<<"x">>), Str(<<"1">>))>>

CCSTables == {Frame(RawCols, rows) : rows \in SubPools(CCSRows, MaxRows) \ {<<>>}}

CCSTermPool ==
    <<Term("sp_data_site", <<"1">>, <<"A">>, 0),
      Term("redcap_data_access_group", <<"1">>, <<"B">>, 0),
      Term("a", <<"1">>, <<"C">>, 1),
      Term("a", <<"x">>, <<"C">>, 1)>>

CCSTerms == SubPools(CCSTermPool, Len(CCSTermPool))

CCSRanges == {r \in RangeTables : Len(r) <= 1}

CreateCleanSubjects(subjects_raw, screening_sites, terms, strict) ==
    /\ pc = "idle"
    /\ LET loaded == load_display_terms(terms)
           r == create_clean_subjects(subjects_raw, screening_sites,
                                      loaded.display_terms_dict,
                                      loaded.display_terms_dict_multi, strict)
       IN  /\ arg' = [subjects_raw |-> subjects_raw, screening_sites |-> screening_sites,
                      display_terms_dict |-> loaded.display_terms_dict,
                      display_terms_dict_multi |-> loaded.display_terms_dict_multi]
           /\ arg_after' = [arg' EXCEPT !.display_terms_dict = r.dict]
           /\ ret' = Handler(r.ret).ret
           /\ raised' = Handler(r.ret).raised
           /\ failure' = r.failure
    /\ fn' = "create_clean_subjects"
    /\ op' = "create_clean_subjects"
    /\ pc' = "done"
    /\ out' = <<>>
    /\ UNCHANGED <<now, current_datetime, requests, payload, combined, answers, session>>

\* ------------------------------------------------------------------------
\* The cleaning functions, called one at a time
\* ------------------------------------------------------------------------
CleanSubjectsData(subjects_raw) ==
    /\ pc = "idle"
    /\ LET r == clean_subjects_data(subjects_raw, display_terms_dict)
       IN  /\ arg' = [subjects_raw |-> subjects_raw, display_terms_dict |-> display_terms_dict]
           /\ arg_after' = [subjects_raw |-> r.subjects_raw, display_terms_dict |-> r.dict]
           /\ display_terms_dict' = r.dict
           /\ out' = [raised |-> r.raised, df |-> r.df]
    /\ op' = "clean_subjects_data"
    /\ pc' = "done"
    /\ UNCHANGED <<fetch, ret, raised, display_terms, display_terms_dict_multi>>

AddScreeningSite(screening_sites, df) ==
    /\ pc = "idle"
    /\ arg' = [screening_sites |-> screening_sites, df |-> df]
    /\ arg_after' = arg'
    /\ out' = add_screening_site(screening_sites, df, "record_id")
    /\ op' = "add_screening_site"
    /\ pc' = "done"
    /\ UNCHANGED <<fetch, ret, raised, session>>

ExtractAdverseEffectsData(subjects_data) ==
    /\ pc = "idle"
    /\ arg' = [subjects_data |-> subjects_data]
    /\ arg_after' = arg'
    /\ out' = extract_adverse_effects_data(subjects_data)
    /\ op' = "extract_adverse_effects_data"
    /\ pc' = "done"
    /\ UNCHANGED <<fetch, ret, raised, session>>

SimplifyBlooddata(blood_df) ==
    /\ pc = "idle"
    /\ LET r == simplify_blooddata(blood_df)
       IN  /\ arg' = [blood_df |-> blood_df]
           /\ arg_after' = [blood_df |-> r.arg]
           /\ out' = [raised |-> r.raised, df |-> r.df]
    /\ op' = "simplify_blooddata"
    /\ pc' = "done"
    /\ UNCHANGED <<fetch, ret, raised, session>>

CleanBlooddata(blood_df) ==
    /\ pc = "idle"
    /\ LET r == clean_blooddata(blood_df)
       IN  /\ arg' = [blood_df |-> blood_df]
           /\ arg_after' = [blood_df |-> r.arg]
           /\ out' = [raised |-> r.raised, df |-> r.df]
    /\ op' = "clean_blooddata"
    /\ pc' = "done"
    /\ UNCHANGED <<fetch, ret, raised, session>>

\* ------------------------------------------------------------------------
\* The subjects-cleaning pipeline (lines 364-368), run on the dictionary
\* object the session holds
\* ------------------------------------------------------------------------
\* clean_subjects_data, then add_screening_site, then
\* get_consented_subjects; the first exception ends the run.  dict is the
\* dictionary object as the run leaves it.
subjects_pipeline(subjects_raw, screening_sites, terms_dict, strict) ==
    LET c == clean_subjects_data(subjects_raw, terms_dict)
        s == add_screening_site(screening_sites, c.df, "record_id")
        consented == get_consented_subjects(s.df, strict)
        Failed(step) ==
            [raised |-> TRUE, step |-> step, subjects |-> EmptyFrame,
             consented |-> EmptyFrame, dict |-> c.dict]
    IN  IF c.raised THEN Failed("clean_subjects_data")
        ELSE IF s.raised THEN Failed("add_screening_site")
        ELSE IF consented.raised THEN Failed("get_consented_subjects")
        ELSE [raised |-> FALSE, step |-> "none", subjects |-> s.df,
              consented |-> consented.df, dict |-> c.dict]

\* What a run hands back to its caller.
PipelineOutput(r) ==
    [raised |-> r.raised, step |-> r.step, subjects |-> r.subjects,
     consented |-> r.consented]

\* A first run of the pipeline on the session's dictionary.
SubjectsPipeline(subjects_raw, screening_sites, strict) ==
    /\ pc = "idle"
    /\ LET r == subjects_pipeline(subjects_raw, screening_sites, display_terms_dict, strict)
       IN  /\ arg' = [subjects_raw |-> subjects_raw, screening_sites |-> screening_sites,
                      strict |-> strict, display_terms_dict |-> display_terms_dict]
           /\ arg_after' = [arg' EXCEPT !.display_terms_dict = r.dict]
           /\ display_terms_dict' = r.dict
           /\ out' = <<PipelineOutput(r)>>
    /\ op' = "subjects_pipeline"
    /\ pc' = "done"
    /\ UNCHANGED <<fetch, ret, raised, display_terms, display_terms_dict_multi>>

\* The same call again: same raw table, same ranges, and the dictionary
\* object as the first run left it.
SubjectsPipelineAgain ==
    /\ pc = "done"
    /\ op = "subjects_pipeline"
    /\ Len(out) = 1
    /\ LET r == subjects_pipeline(arg.subjects_raw, arg.screening_sites,
                                  display_terms_dict, arg.strict)
       IN  /\ arg_after' = [arg_after EXCEPT !.display_terms_dict = r.dict]
           /\ display_terms_dict' = r.dict
           /\ out' = Append(out, PipelineOutput(r))
    /\ UNCHANGED <<pc, op, arg, fetch, ret, raised, display_terms, display_terms_dict_multi>>

Init ==
    /\ pc = "idle"
    /\ fn = "none"
    /\ now = 0
    /\ current_datetime = NoDate
    /\ requests = <<>>
    /\ payload = <<>>
    /\ combined = FALSE
    /\ answers = <<>>
    /\ failure = "none"
    /\ ret = Unset
    /\ raised = FALSE
    /\ op = "none"
    /\ arg = <<>>
    /\ arg_after = <<>>
    /\ out = <<>>
    /\ display_terms = <<>>
    /\ display_terms_dict = <<>>
    /\ display_terms_dict_multi = <<>>

\* The top-level operations.
Next ==
    \/ \E f \in Fetchers : Call(f)
    \/ \E k \in 1..2, resp \in Responses : Request(k, resp)
    \/ SubjectsOutput
    \/ ImagingOutput
    \/ BloodOutput
    \/ \E t \in CCSTables, r \in CCSRanges, terms \in CCSTerms, strict \in BOOLEAN :
          CreateCleanSubjects(t, r, terms, strict)
    \/ Return

Spec == Init /\ [][Next]_vars

\* add_screening_site on its own.
NextSites ==
    \/ \E r \in RangeTables, df \in IdTables : AddScreeningSite(r, df)
    \/ Return

SpecSites == Init /\ [][NextSites]_vars

\* extract_adverse_effects_data on its own.
NextAE ==
    \/ \E t \in AETables : ExtractAdverseEffectsData(t)
    \/ Return

SpecAE == Init /\ [][NextAE]_vars

\* The blood cleaner on its own.
NextBlood ==
    \/ \E b \in BloodTables : SimplifyBlooddata(b)
    \/ \E b \in BloodTables : CleanBlooddata(b)
    \/ Return

SpecBlood == Init /\ [][NextBlood]_vars

\* A session: the display terms are loaded once, then tables are cleaned.
InitClean ==
    /\ pc = "idle"
    /\ fn = "none"
    /\ now = 0
    /\ current_datetime = NoDate
    /\ requests = <<>>
    /\ payload = <<>>
    /\ combined = FALSE
    /\ answers = <<>>
    /\ failure = "none"
    /\ ret = Unset
    /\ raised = FALSE
    /\ op = "none"
    /\ arg = <<>>
    /\ arg_after = <<>>
    /\ out = <<>>
    /\ \E terms \in TermTables :
          LET loaded == load_display_terms(terms)
          IN  /\ display_terms = loaded.display_terms
              /\ display_terms_dict = loaded.display_terms_dict
              /\ display_terms_dict_multi = loaded.display_terms_dict_multi

BloodSample ==
    BloodTablesOf(BOOLEAN, {T("1", "1", "0", "0", "0", "0", "0")},
                  {T("1", "1", "0", "3", "0", "0", "0")},
                  {T("1", "1", "1", "0", "0", "0", "0")}, {Str(<<"1">>)}, 1)

NextClean ==
    \/ \E t \in SubjectTables : CleanSubjectsData(t)
    \/ \E b \in BloodSample : SimplifyBlooddata(b)
    \/ \E b \in BloodSample : CleanBlooddata(b)
    \/ Return

SpecClean == InitClean /\ [][NextClean]_vars

\* A session that runs the subjects pipeline, each call possibly repeated.
NextPipeline ==
    \/ \E t \in CCSTables, r \in CCSRanges, strict \in BOOLEAN :
          SubjectsPipeline(t, r, strict)
    \/ SubjectsPipelineAgain
    \/ Return

SpecPipeline == InitClean /\ [][NextPipeline]_vars

\* ------------------------------------------------------------------------
\* Claims about the fetchers
\* ------------------------------------------------------------------------
FetcherRunning == fn \in Fetchers

NoStepFailed == failure = "none"

\* C1: in each fetcher, a resource that answers with a status other than 200
\* makes the fetcher return exactly {status: "500", source: <that file>},
\* no GET follows the failure, the combination step is never entered, and
\* the second GET is only issued after the first answered 200.
C1_FailureStopsFetch ==
    FetcherRunning =>
        /\ Len(requests) = Len(answers)
        /\ \A k \in DOMAIN requests : requests[k] = api_dict[fn][k]
        /\ \A k \in DOMAIN answers :
              (answers[k] # 200 /\ answers[k] # 0) =>
                  /\ ret = StatusSource(api_dict[fn][k])
                  /\ ret.keys = {"status", "source"}
                  /\ Len(requests) = k
                  /\ ~combined
                  /\ pc = "done"
        /\ Len(requests) = 2 => answers[1] = 200
        /\ combined => (Len(answers) = 2 /\ answers[1] = 200 /\ answers[2] = 200)

\* The second of two resources answered 404 after the first answered 200.
C1_Witness ==
    /\ FetcherRunning
    /\ pc = "done"
    /\ answers = <<200, 404>>
    /\ ret = StatusSource(api_dict[fn][2])

\* C2 as stated: with every GET answering 200 and no step failing, every
\* fetcher, get_api_subjects included, returns {date, data} with the
\* timestamp taken at the start of the call.
C2_Original ==
    (FetcherRunning /\ pc = "done" /\ NoStepFailed) =>
        /\ ret.type = "dict"
        /\ ret.keys = {"date", "data"}
        /\ ret.date = current_datetime

\* C2 (amended): with every GET answering 200 and no step failing,
\* get_api_imaging and get_api_blood return a mapping with exactly the keys
\* date (the timestamp taken at the start of the call) and data (resource
\* name -> list of flat records), while get_api_subjects returns the bare
\* list of combined flat records, without a date.
C2_SuccessShape ==
    (FetcherRunning /\ pc = "done" /\ NoStepFailed) =>
        /\ answers = <<200, 200>>
        /\ fn = "get_api_imaging" =>
              /\ ret.type = "dict" /\ ret.keys = {"date", "data"}
              /\ ret.date = current_datetime
              /\ {v.name : v \in ret.data} = {"imaging", "qc"}
              /\ \A v \in ret.data :
                    Len(v.records) = payload[IF v.name = "imaging" THEN 1 ELSE 2].n
        /\ fn = "get_api_blood" =>
              /\ ret.type = "dict" /\ ret.keys = {"date", "data"}
              /\ ret.date = current_datetime
              /\ {v.name : v \in ret.data} = {"blood"}
              /\ \A v \in ret.data :
                    Len(v.records) = 3 * (payload[1].n + payload[2].n)
        /\ fn = "get_api_subjects" =>
              /\ ret.type = "list"
              /\ ret.keys = {}
              /\ ret.date = NoDate
              /\ Len(ret.items) = payload[1].n + payload[2].n

\* A fetcher returned {date, data} some time after it read the clock.
C2_Witness ==
    /\ FetcherRunning
    /\ pc = "done"
    /\ NoStepFailed
    /\ ret.type = "dict"
    /\ ret.date = current_datetime
    /\ now > current_datetime
    /\ \E v \in ret.data : v.records # <<>>

\* ------------------------------------------------------------------------
\* Claims about create_clean_subjects and the failure policy
\* ------------------------------------------------------------------------
TopLevel == Fetchers \cup {"create_clean_subjects"}

CleanReturned == fn = "create_clean_subjects" /\ pc = "done"

\* The raw table is well formed and the ranges are disjoint and hold every
\* subject id.
WellFormedInput ==
    /\ \A i, j \in 1..Len(arg.screening_sites) :
          i # j => (arg.screening_sites[i].record_id_start .. arg.screening_sites[i].record_id_end)
                    \cap (arg.screening_sites[j].record_id_start .. arg.screening_sites[j].record_id_end) = {}
    /\ \A i \in 1..Len(arg.subjects_raw.rows) :
          \E k \in 1..Len(arg.screening_sites) :
              Between(Coerce(arg.subjects_raw.rows[i]["index"]), arg.screening_sites[k])

\* No cleaning step fails on the arguments of the running call.
CleaningSucceeds ==
    LET c == clean_subjects_data(arg.subjects_raw, arg.display_terms_dict)
        s == add_screening_site(arg.screening_sites, c.df, "record_id")
        ex == extract_adverse_effects_data(arg.subjects_raw)
    IN  /\ ~c.raised
        /\ ~s.raised
        /\ ~get_consented_subjects(s.df, TRUE).raised
        /\ ~ex.raised
        /\ ~clean_adverse_events(ex.df, arg.display_terms_dict_multi).isnone

\* Adverse-events extraction or cleaning fails on the arguments of the call.
AdverseEventsFail ==
    LET ex == extract_adverse_effects_data(arg.subjects_raw)
    IN  ex.raised \/ clean_adverse_events(ex.df, arg.display_terms_dict_multi).isnone

View(name) == (CHOOSE v \in ret.data : v.name = name).records

\* C3: on a well-formed raw table, disjoint ranges and valid dictionaries
\* (no cleaning step fails) create_clean_subjects returns {date, data} with
\* the views subjects, consented and adverse_events, consented having the
\* rows of subjects plus treatment_site; it does not return None.
C3_ReturnsThreeViews ==
    (CleanReturned /\ WellFormedInput /\ CleaningSucceeds) =>
        /\ ret.type = "dict"
        /\ ret.keys = {"date", "data"}
        /\ {v.name : v \in ret.data} = {"subjects", "consented", "adverse_events"}
        /\ Len(View("consented")) = Len(View("subjects"))
        /\ \A i \in 1..Len(View("subjects")) :
              /\ DOMAIN View("consented")[i] = DOMAIN View("subjects")[i] \cup {"treatment_site"}
              /\ \A k \in DOMAIN View("subjects")[i] :
                    View("consented")[i][k] = View("subjects")[i][k]

\* C4: a top-level operation never raises to its caller, it always ends
\* with a value; when a step failed that value is a failure sentinel with
\* no data view; when adverse-events extraction or cleaning fails,
\* create_clean_subjects returns None and no partial result.
C4_FailuresAreSentinels ==
    /\ ~raised
    /\ (pc = "done" /\ fn \in TopLevel) =>
          /\ ret.type \in {"dict", "list", "None"}
          /\ failure # "none" =>
                /\ ret.type \in {"dict", "None"}
                /\ "data" \notin ret.keys
                /\ ret.data = {}
                /\ ret.items = <<>>
                /\ IF fn \in Fetchers
                   THEN ret \in {PyNone, StatusOnly, StepFail("2"),
                                 StatusSource(api_dict[fn][1]),
                                 StatusSource(api_dict[fn][2])}
                   ELSE ret = PyNone
    /\ (CleanReturned /\ AdverseEventsFail) => ret = PyNone

\* create_clean_subjects got through the subjects steps, clean_adverse_events
\* yielded None, and the call returned None.
C4_Witness ==
    /\ CleanReturned
    /\ failure = "clean_adverse_events"
    /\ AdverseEventsFail
    /\ ~raised
    /\ ret = PyNone

\* ------------------------------------------------------------------------
\* Claims about add_screening_site
\* ------------------------------------------------------------------------
SitesReturned == op = "add_screening_site" /\ pc = "done"

RangeIds(r) == r.record_id_start .. r.record_id_end

DisjointRanges(ss) ==
    \A i, j \in 1..Len(ss) : i # j => RangeIds(ss[i]) \cap RangeIds(ss[j]) = {}

UniqueIds(df) ==
    \A i, j \in 1..Len(df.rows) :
        (i # j /\ df.rows[i]["record_id"].t = "num") =>
            df.rows[i]["record_id"] # df.rows[j]["record_id"]

RangesOf(ss, v) == {k \in 1..Len(ss) : v.t = "num" /\ v.n \in RangeIds(ss[k])}

OutRowsOf(r) == {j \in 1..Len(out.df.rows) : out.df.rows[j]["row"] = r["row"]}

\* C5: with pairwise disjoint closed ranges and unique ids, a subject whose
\* id is inside a range is in the output exactly once, with the site of the
\* range that holds its id (bounds included); a subject whose id is in no
\* range is absent; the output has no more rows than the input.
C5_RangeJoin ==
    (SitesReturned /\ DisjointRanges(arg.screening_sites) /\ UniqueIds(arg.df)) =>
        /\ ~out.raised
        /\ Len(out.df.rows) <= Len(arg.df.rows)
        /\ \A i \in 1..Len(arg.df.rows) :
              LET r == arg.df.rows[i]
                  ks == RangesOf(arg.screening_sites, r["record_id"])
              IN  IF ks = {} THEN OutRowsOf(r) = {}
                  ELSE /\ Cardinality(OutRowsOf(r)) = 1
                       /\ \A j \in OutRowsOf(r), k \in ks :
                             /\ out.df.rows[j]["record_id"] = r["record_id"]
                             /\ out.df.rows[j]["screening_site"]
                                   = Str(arg.screening_sites[k].screening_site)

\* Two disjoint ranges; one id sits on the upper bound of the second range,
\* another id is outside both.
C5_Witness ==
    /\ SitesReturned
    /\ Len(arg.screening_sites) = 2
    /\ DisjointRanges(arg.screening_sites)
    /\ UniqueIds(arg.df)
    /\ \E i, j \in 1..Len(arg.df.rows) :
          /\ arg.df.rows[i]["record_id"].t = "num"
          /\ arg.df.rows[i]["record_id"].n = arg.screening_sites[2].record_id_end
          /\ arg.screening_sites[2].record_id_start < arg.screening_sites[2].record_id_end
          /\ RangesOf(arg.screening_sites, arg.df.rows[j]["record_id"]) = {}
          /\ arg.df.rows[j]["record_id"].t = "num"
    /\ Len(out.df.rows) = 1
    /\ out.df.rows[1]["screening_site"] = Str(SiteName(2))

\* ------------------------------------------------------------------------
\* Claims about the blood QC flag
\* ------------------------------------------------------------------------
BloodCleaned == op = "clean_blooddata" /\ pc = "done" /\ ~out.raised

Parsed(r) ==
    /\ r["bscp_time_blood_draw"].t = "time"
    /\ r["bscp_time_centrifuge"].t = "time"
    /\ r["bscp_aliquot_freezer_time"].t = "time"

\* C6: for every record whose three timestamps parsed, time_values_check is
\* true exactly when the centrifuge time is strictly earlier than the
\* freezer time, the centrifuge time is at most 30 minutes after the draw
\* and the freezer time is at most 60 minutes after the draw.
C6_QCFlagExact ==
    BloodCleaned =>
        \A i \in 1..Len(out.df.rows) :
            LET r == out.df.rows[i]
                draw == r["bscp_time_blood_draw"].n
                cent == r["bscp_time_centrifuge"].n
                frz == r["bscp_aliquot_freezer_time"].n
            IN  Parsed(r) =>
                    (r["time_values_check"] = Bool(TRUE)
                        <=> /\ cent < frz
                            /\ cent - draw <= CentrifugeLimit * SecondsPerMinute
                            /\ frz - draw <= FreezerLimit * SecondsPerMinute)

\* ------------------------------------------------------------------------
\* Claims about extract_adverse_effects_data
\* ------------------------------------------------------------------------
Extracted == op = "extract_adverse_effects_data" /\ pc = "done"

UniqueSubjects(df) ==
    \A i, j \in 1..Len(df.rows) : i # j => df.rows[i]["index"] # df.rows[j]["index"]

PresentRows(df) == {i \in 1..Len(df.rows) : ~IsNull(df.rows[i]["adverse_effects"])}

\* The (subject, instance) positions of the subjects whose cell is present.
InstancePairs(df) ==
    UNION {{<<i, j>> : j \in 1..Len(df.rows[i]["adverse_effects"].d)} : i \in PresentRows(df)}

InstanceAt(df, p) == df.rows[p[1]]["adverse_effects"].d[p[2]]

AllFieldNames(df) ==
    UNION {{InstanceAt(df, p).fields[k].name : k \in 1..Len(InstanceAt(df, p).fields)} :
            p \in InstancePairs(df)}

\* C7: one output row per (subject, instance key) pair of the subjects whose
\* cell is present and none for a subject whose cell is missing; the four
\* identifying columns lead, one column per field key of the union follows,
\* and a field that an instance lacks, or whose value is empty or blank, is
\* missing.
C7_OneRowPerInstance ==
    (Extracted /\ UniqueSubjects(arg.subjects_data)) =>
        LET df == arg.subjects_data
            rows == out.df.rows
            RowsFor(p) ==
                {o \in 1..Len(rows) :
                    /\ rows[o]["index"] = df.rows[p[1]]["index"]
                    /\ rows[o]["instance"] = Str(InstanceAt(df, p).key)}
        IN  /\ ~out.raised
            /\ Len(rows) = Cardinality(InstancePairs(df))
            /\ \A p \in InstancePairs(df) : Cardinality(RowsFor(p)) = 1
            /\ SubSeq(out.df.cols, 1, 4) = <<"index", "main_record_id", "mcc", "instance">>
            /\ {out.df.cols[k] : k \in 5..Len(out.df.cols)} = AllFieldNames(df)
            /\ Len(out.df.cols) = 4 + Cardinality(AllFieldNames(df))
            /\ \A p \in InstancePairs(df) : \A o \in RowsFor(p) : \A f \in AllFieldNames(df) :
                  rows[o][f] = BlankToNaN(FieldValue(InstanceAt(df, p), f))

\* ------------------------------------------------------------------------
\* Claims about clean_subjects_data and the display dictionaries
\* ------------------------------------------------------------------------
SubjectsCleaned == op = "clean_subjects_data" /\ pc = "done"

\* The race value of a raw row as the race step finds it: 'N/A' has been
\* replaced by the missing value (line 168).
RaceBefore(r) == IF r["dem_race"] = Str(S_NA) THEN NaN ELSE r["dem_race"]

RaceNotNumeric(df) == \E i \in 1..Len(df.rows) : RaceBefore(df.rows[i]).t = "str"

\* The rows of the cleaned table that come from the raw row r.
CleanedRowsOf(r) ==
    {j \in 1..Len(out.df.rows) : out.df.rows[j]["record_id"] = Coerce(r["index"])}

\* v, possibly in the numeric form that the coercion of line 176 gives it
SameValue(a, v) == a = v \/ a = Coerce(v)

\* C8: when dem_race is not purely numeric, a row whose race value contains
\* "|" has race code 8 after cleaning, a row whose race value does not
\* contain "|" keeps its race value, and dem_race_original holds the race
\* value the row had before the overwrite.
C8_RaceSentinel ==
    (SubjectsCleaned /\ ~out.raised /\ RaceNotNumeric(arg.subjects_raw)) =>
        \A i \in 1..Len(arg.subjects_raw.rows) :
            LET r == arg.subjects_raw.rows[i]
                v == RaceBefore(r)
            IN  /\ CleanedRowsOf(r) # {}
                /\ \A j \in CleanedRowsOf(r) :
                      LET o == out.df.rows[j]
                      IN  /\ "dem_race_original" \in DOMAIN o
                          /\ SameValue(o["dem_race_original"], v)
                          /\ IF StrContains(v, "|")
                             THEN SameValue(o["dem_race"], Str(<<"8">>))
                             ELSE SameValue(o["dem_race"], v)

\* A table with a multi-select race and a single race was cleaned.
C8_Witness ==
    /\ SubjectsCleaned
    /\ ~out.raised
    /\ Len(arg.subjects_raw.rows) = 2
    /\ StrContains(arg.subjects_raw.rows[1]["dem_race"], "|")
    /\ arg.subjects_raw.rows[2]["dem_race"] = Str(<<"1">>)
    /\ out.df.rows[1]["dem_race"] = Num(8)
    /\ out.df.rows[1]["dem_race_original"] = Str(<<"1", "|", "2">>)
    /\ out.df.rows[2]["dem_race"] = Num(1)

\* api_value is unique within each field of the term table.
UniqueTerms(terms) ==
    \A i, j \in 1..Len(terms) :
        (i # j /\ terms[i].api_field = terms[j].api_field) =>
            terms[i].api_value # terms[j].api_value

TermsOf(dict) ==
    UNION {{<<dict[i].field, dict[i].terms[k].value, dict[i].terms[k].text>> :
                k \in 1..Len(dict[i].terms)} : i \in 1..Len(dict)}

\* C9: with api_value unique within each field, every term with multi = 0
\* has its field in the single-valued dictionary; clean_subjects_data gives
\* F_display = T on every row where F = V and a missing F_display on every
\* row whose F value has no term, and keeps the number of rows; terms with
\* multi = 1 are in the multi-valued dictionary only.
C9_DisplayRoundTrip ==
    (SubjectsCleaned /\ UniqueTerms(display_terms)) =>
        /\ \A i \in 1..Len(display_terms) :
              LET t == display_terms[i]
              IN  IF t.multi = 0
                  THEN /\ t.api_field \in DictFields(arg.display_terms_dict)
                       /\ \E e \in TermsOf(arg.display_terms_dict) :
                             /\ e[1] = t.api_field
                             /\ SameValue(e[2], t.api_value)
                             /\ SameValue(e[3], t.display_text)
                  ELSE /\ \E e \in TermsOf(display_terms_dict_multi) :
                             /\ e[1] = t.api_field
                             /\ SameValue(e[2], t.api_value)
                             /\ SameValue(e[3], t.display_text)
                       /\ ~\E e \in TermsOf(arg.display_terms_dict) :
                             /\ e[1] = t.api_field
                             /\ SameValue(e[2], t.api_value)
                             /\ SameValue(e[3], t.display_text)
        /\ ~out.raised
        /\ Len(out.df.rows) = Len(arg.subjects_raw.rows)
        /\ \A k \in 1..Len(arg.display_terms_dict) :
              LET e == arg.display_terms_dict[k]
              IN  e.field \in ColSet(out.df) =>
                    \A j \in 1..Len(out.df.rows) :
                        LET o == out.df.rows[j]
                            m == {x \in 1..Len(e.terms) : e.terms[x].value = o[e.field]}
                        IN  IF m = {} THEN IsNull(o[DisplayCol(e.field)])
                            ELSE \A x \in m : o[DisplayCol(e.field)] = e.terms[x].text

\* ------------------------------------------------------------------------
\* Frame conditions of the cleaning functions
\* ------------------------------------------------------------------------
\* C10: clean_subjects_data leaves the display dictionary it was passed
\* (lookup tables, values, column types) and the raw subjects table as they
\* were; simplify_blooddata and clean_blooddata leave the blood table they
\* were given as it was.
C10_ArgumentsUnchanged ==
    (pc = "done" /\ op \in {"clean_subjects_data", "simplify_blooddata", "clean_blooddata"}) =>
        arg_after = arg

\* ------------------------------------------------------------------------
\* Claims about the subjects pipeline
\* ------------------------------------------------------------------------
RanTwice == op = "subjects_pipeline" /\ pc = "done" /\ Len(out) = 2

\* C11: the subjects pipeline run twice in sequence on the same raw table,
\* with the same dictionary object and the same site ranges, gives the same
\* outcome and the same output tables on both runs, whatever earlier runs
\* left in the dictionary.
C11_PipelineRepeatable ==
    RanTwice => out[1] = out[2]

\* Both runs gave a table with rows, and the first run had changed the
\* dictionary object before the second one read it.
C11_Witness ==
    /\ RanTwice
    /\ ~out[1].raised
    /\ out[2].consented.rows # <<>>
    /\ arg.display_terms_dict # display_terms_dict

====
